---- MODULE Spec2Model ----
(***************************************************************************)
(* Admission control for a venue of fixed capacity.                        *)
(*                                                                         *)
(*   sim      the local simulation harness (simulation_engine.py,          *)
(*            SimulationEngine together with its PersonGenerator)          *)
(*   bouncer  the admission controller object (scenario_1.py,              *)
(*            scenario_2.py, scenario_3.py); bouncer.scenario names the    *)
(*            class whose decision logic is in use                         *)
(*   pc, result, next_person, decision                                     *)
(*            the position and the locals of the controller's run_game     *)
(*            loop                                                         *)
(*   arrivals the random stream behind PersonGenerator.generate_person,    *)
(*            as the family of draws it may produce                        *)
(*                                                                         *)
(* Attribute maps (a person's attributes, constraints, counts) are         *)
(* functions from attribute names; Python's None is NoPerson for a person  *)
(* and "None" for a decision.                                              *)
(***************************************************************************)
EXTENDS Integers, Sequences, FiniteSets, TLC

VARIABLES sim, bouncer, pc, result, next_person, decision, arrivals

vars == <<sim, bouncer, pc, result, next_person, decision, arrivals>>

(***************************************************************************)
(* Bounds of the scaled-down instances.                                    *)
(***************************************************************************)
Cap == 3
MaxRejections == 2
MaxPersonIndex == 6
\* capacity and minCount of the run with alternating arrivals
AltCap == 10

(***************************************************************************)
(* Program constants.                                                      *)
(***************************************************************************)
VENUE_CAPACITY == 1000
MAX_REJECTIONS == 20000

scenario_1_attrs == {"young", "well_dressed"}
scenario_2_attrs == {"techno_lover", "well_connected", "creative", "berlin_local"}
scenario_3_attrs == {"underground_veteran", "international", "fashion_forward",
                     "queer_friendly", "vinyl_collector", "german_speaker"}

\* relative frequencies are held as integer numerators over FreqDen
FreqDen == 100000

attribute_frequencies(scenario_number) ==
    IF scenario_number = 1 THEN
        [a \in scenario_1_attrs |->
            IF a = "young" THEN 31490 ELSE 32230]
    ELSE IF scenario_number = 2 THEN
        [a \in scenario_2_attrs |->
            IF a = "techno_lover" THEN 62650
            ELSE IF a = "well_connected" THEN 47000
            ELSE IF a = "creative" THEN 6227
            ELSE 39800]
    ELSE
        [a \in scenario_3_attrs |->
            IF a = "underground_veteran" THEN 67950
            ELSE IF a = "international" THEN 57350
            ELSE IF a = "fashion_forward" THEN 69100
            ELSE IF a = "queer_friendly" THEN 4614
            ELSE IF a = "vinyl_collector" THEN 4454
            ELSE 45650]

SCENARIO_1_CONFIG ==
    [constraints |-> [a \in scenario_1_attrs |-> 600],
     venue_capacity |-> 1000]

SCENARIO_2_CONFIG ==
    [constraints |->
        [a \in scenario_2_attrs |->
            IF a = "techno_lover" THEN 650
            ELSE IF a = "well_connected" THEN 450
            ELSE IF a = "creative" THEN 300
            ELSE 750],
     venue_capacity |-> 1000]

SCENARIO_3_CONFIG ==
    [constraints |->
        [a \in scenario_3_attrs |->
            IF a = "underground_veteran" THEN 500
            ELSE IF a = "international" THEN 650
            ELSE IF a = "fashion_forward" THEN 550
            ELSE IF a = "queer_friendly" THEN 250
            ELSE IF a = "vinyl_collector" THEN 200
            ELSE 800],
     venue_capacity |-> 1000]

scenario_configs(scenario_number) ==
    IF scenario_number = 1 THEN SCENARIO_1_CONFIG
    ELSE IF scenario_number = 2 THEN SCENARIO_2_CONFIG
    ELSE SCENARIO_3_CONFIG

(***************************************************************************)
(* Helpers for Python dictionaries.                                        *)
(***************************************************************************)
EmptyMap == [a \in {} |-> 0]

NoPerson == [personIndex |-> -1, attributes |-> [a \in {} |-> FALSE]]

\* d.get(k, default)
Get(d, k, default) == IF k \in DOMAIN d THEN d[k] ELSE default

\* the attributes that are present (True) on a person's attribute map
Present(attrs) == {a \in DOMAIN attrs : attrs[a]}

ZeroCounts(keys) == [a \in keys |-> 0]

(***************************************************************************)
(* PersonGenerator.generate_person: the attribute maps a draw can give.    *)
(* Every joint table has an entry for each combination of its scenario's   *)
(* attributes; the tuple positions are assigned only when the constraint   *)
(* attributes are exactly one of the three scenario sets, and otherwise    *)
(* every attribute stays False.                                            *)
(***************************************************************************)
\* the scenario-3 attributes the scaled-down instances let vary: a
\* bottleneck attribute, the attribute with the non-speaker limit, a plain one
LogicAttrs3 == {"queer_friendly", "german_speaker", "international"}

KnownAttrSets == {scenario_1_attrs, scenario_2_attrs, scenario_3_attrs}

Draws(keys, stream) ==
    IF stream = "both" THEN {[a \in keys |-> TRUE]}
    ELSE IF stream = "young_only" THEN {[a \in keys |-> a = "young"]}
    ELSE IF stream = "well_dressed_only" THEN {[a \in keys |-> a = "well_dressed"]}
    ELSE IF stream = "neither" THEN {[a \in keys |-> FALSE]}
    ELSE IF stream = "three_vary"
    THEN {[a \in keys |-> a \in T] : T \in SUBSET LogicAttrs3}
    ELSE [keys -> BOOLEAN]

\* "alternating": the draws come out young, not young, young, ... and
\* never well_dressed; "alternating_from_false" starts with not young;
\* "late_mix": the first 1201 draws have no attribute, the later ones have
\* every attribute and no attribute in turn; "locals": nobody is creative,
\* the first 650 draws are techno_lover, well_connected and berlin_local,
\* the later ones berlin_local only
generate_person(s, stream) ==
    LET keys == DOMAIN s.constraints IN
    IF keys \in KnownAttrSets
    THEN IF stream = "alternating"
         THEN {[a \in keys |-> a = "young" /\ s.person_index % 2 = 0]}
         ELSE IF stream = "alternating_from_false"
         THEN {[a \in keys |-> a = "young" /\ s.person_index % 2 = 1]}
         ELSE IF stream = "late_mix"
         THEN {[a \in keys |-> s.person_index > 1200 /\ s.person_index % 2 = 1]}
         ELSE IF stream = "locals"
         THEN {[a \in keys |->
                   \/ a = "berlin_local"
                   \/ /\ a \in {"techno_lover", "well_connected"}
                      /\ s.person_index < 650]}
         ELSE Draws(keys, stream)
    ELSE {[a \in keys |-> FALSE]}

(***************************************************************************)
(* PersonGenerator: the joint tables and the draw of one person from a     *)
(* uniform value.  Probabilities and uniform values are held in units of   *)
(* 1 / ProbDen; a table is the sequence of its entries in insertion order, *)
(* and its entries are such that the running sums of generate_person       *)
(* ("cumulative += prob") are the running sums of the source rounded to    *)
(* the unit.                                                               *)
(***************************************************************************)
ProbDen == 1000000000

joint_probabilities_1 ==
    <<
      [key |-> <<FALSE, FALSE>>, prob |-> 502400000],
      [key |-> <<FALSE, TRUE>>, prob |-> 182700000],
      [key |-> <<TRUE, FALSE>>, prob |-> 175300000],
      [key |-> <<TRUE, TRUE>>, prob |-> 139600000]
    >>

joint_probabilities_2 ==
    <<
      [key |-> <<FALSE, FALSE, TRUE, TRUE>>, prob |-> 98241649],
      [key |-> <<FALSE, FALSE, TRUE, FALSE>>, prob |-> 417732914],
      [key |-> <<TRUE, FALSE, FALSE, TRUE>>, prob |-> 246513945],
      [key |-> <<TRUE, FALSE, TRUE, FALSE>>, prob |-> 13790989],
      [key |-> <<TRUE, TRUE, TRUE, TRUE>>, prob |-> 25896415],
      [key |-> <<TRUE, FALSE, FALSE, FALSE>>, prob |-> 48632393],
      [key |-> <<TRUE, FALSE, TRUE, TRUE>>, prob |-> 47521453],
      [key |-> <<FALSE, FALSE, FALSE, TRUE>>, prob |-> 31623506],
      [key |-> <<FALSE, FALSE, FALSE, FALSE>>, prob |-> 35052099],
      [key |-> <<TRUE, TRUE, TRUE, FALSE>>, prob |-> 7738278],
      [key |-> <<TRUE, TRUE, FALSE, TRUE>>, prob |-> 6838032],
      [key |-> <<FALSE, TRUE, TRUE, TRUE>>, prob |-> 10247472],
      [key |-> <<FALSE, TRUE, FALSE, TRUE>>, prob |-> 2853969],
      [key |-> <<FALSE, TRUE, TRUE, FALSE>>, prob |-> 4980079],
      [key |-> <<TRUE, TRUE, FALSE, FALSE>>, prob |-> 1589795],
      [key |-> <<FALSE, TRUE, FALSE, FALSE>>, prob |-> 747012]
    >>

joint_probabilities_3 ==
    <<
      [key |-> <<TRUE, FALSE, TRUE, FALSE, TRUE, FALSE>>, prob |-> 260685902],
      [key |-> <<FALSE, TRUE, FALSE, FALSE, TRUE, FALSE>>, prob |-> 156798168],
      [key |-> <<TRUE, FALSE, TRUE, FALSE, FALSE, FALSE>>, prob |-> 151732655],
      [key |-> <<TRUE, TRUE, FALSE, FALSE, TRUE, FALSE>>, prob |-> 101507124],
      [key |-> <<TRUE, TRUE, FALSE, FALSE, FALSE, FALSE>>, prob |-> 65028281],
      [key |-> <<FALSE, FALSE, TRUE, FALSE, TRUE, FALSE>>, prob |-> 43942865],
      [key |-> <<TRUE, TRUE, TRUE, FALSE, TRUE, FALSE>>, prob |-> 25345457],
      [key |-> <<FALSE, TRUE, FALSE, FALSE, FALSE, FALSE>>, prob |-> 21998282],
      [key |-> <<TRUE, TRUE, TRUE, FALSE, FALSE, FALSE>>, prob |-> 19886160],
      [key |-> <<FALSE, FALSE, TRUE, FALSE, FALSE, FALSE>>, prob |-> 16252596],
      [key |-> <<FALSE, TRUE, TRUE, FALSE, TRUE, FALSE>>, prob |-> 13800386],
      [key |-> <<TRUE, FALSE, FALSE, FALSE, TRUE, FALSE>>, prob |-> 13191810],
      [key |-> <<FALSE, FALSE, FALSE, FALSE, FALSE, FALSE>>, prob |-> 13156010],
      [key |-> <<TRUE, FALSE, FALSE, FALSE, FALSE, FALSE>>, prob |-> 12672729],
      [key |-> <<FALSE, TRUE, FALSE, FALSE, TRUE, TRUE>>, prob |-> 7213432],
      [key |-> <<FALSE, FALSE, FALSE, FALSE, TRUE, FALSE>>, prob |-> 6873344],
      [key |-> <<FALSE, TRUE, TRUE, FALSE, FALSE, FALSE>>, prob |-> 6783847],
      [key |-> <<TRUE, FALSE, TRUE, TRUE, TRUE, FALSE>>, prob |-> 4958116],
      [key |-> <<TRUE, TRUE, TRUE, TRUE, TRUE, TRUE>>, prob |-> 4206344],
      [key |-> <<FALSE, TRUE, TRUE, FALSE, TRUE, TRUE>>, prob |-> 3919954],
      [key |-> <<TRUE, TRUE, TRUE, TRUE, TRUE, FALSE>>, prob |-> 3365075],
      [key |-> <<FALSE, TRUE, FALSE, TRUE, TRUE, TRUE>>, prob |-> 2971289],
      [key |-> <<TRUE, TRUE, FALSE, TRUE, TRUE, FALSE>>, prob |-> 2899692],
      [key |-> <<TRUE, FALSE, TRUE, TRUE, TRUE, TRUE>>, prob |-> 2863894],
      [key |-> <<TRUE, TRUE, FALSE, TRUE, TRUE, TRUE>>, prob |-> 2559604],
      [key |-> <<FALSE, TRUE, TRUE, TRUE, TRUE, TRUE>>, prob |-> 2398511],
      [key |-> <<TRUE, FALSE, TRUE, TRUE, FALSE, FALSE>>, prob |-> 2076323],
      [key |-> <<TRUE, TRUE, FALSE, FALSE, TRUE, TRUE>>, prob |-> 2022625],
      [key |-> <<TRUE, FALSE, FALSE, TRUE, TRUE, FALSE>>, prob |-> 1915228],
      [key |-> <<FALSE, TRUE, FALSE, TRUE, TRUE, FALSE>>, prob |-> 1861531],
      [key |-> <<FALSE, FALSE, FALSE, FALSE, TRUE, TRUE>>, prob |-> 1593041],
      [key |-> <<TRUE, FALSE, FALSE, TRUE, TRUE, TRUE>>, prob |-> 1575141],
      [key |-> <<TRUE, TRUE, TRUE, FALSE, TRUE, TRUE>>, prob |-> 1485645],
      [key |-> <<TRUE, TRUE, TRUE, TRUE, FALSE, FALSE>>, prob |-> 1521443],
      [key |-> <<FALSE, FALSE, TRUE, FALSE, TRUE, TRUE>>, prob |-> 1342451],
      [key |-> <<TRUE, TRUE, FALSE, TRUE, FALSE, FALSE>>, prob |-> 1235054],
      [key |-> <<TRUE, FALSE, TRUE, FALSE, TRUE, TRUE>>, prob |-> 1252953],
      [key |-> <<FALSE, TRUE, TRUE, TRUE, TRUE, FALSE>>, prob |-> 1127658],
      [key |-> <<FALSE, FALSE, TRUE, TRUE, TRUE, FALSE>>, prob |-> 1073960],
      [key |-> <<TRUE, TRUE, TRUE, TRUE, FALSE, TRUE>>, prob |-> 1020262],
      [key |-> <<FALSE, FALSE, FALSE, TRUE, TRUE, TRUE>>, prob |-> 948665],
      [key |-> <<FALSE, FALSE, TRUE, TRUE, TRUE, TRUE>>, prob |-> 930765],
      [key |-> <<TRUE, FALSE, FALSE, TRUE, FALSE, FALSE>>, prob |-> 859168],
      [key |-> <<TRUE, FALSE, TRUE, TRUE, FALSE, TRUE>>, prob |-> 823370],
      [key |-> <<FALSE, TRUE, FALSE, FALSE, FALSE, TRUE>>, prob |-> 805470],
      [key |-> <<FALSE, TRUE, TRUE, FALSE, FALSE, TRUE>>, prob |-> 715973],
      [key |-> <<TRUE, FALSE, FALSE, TRUE, FALSE, TRUE>>, prob |-> 698074],
      [key |-> <<TRUE, TRUE, FALSE, TRUE, FALSE, TRUE>>, prob |-> 680175],
      [key |-> <<FALSE, FALSE, FALSE, TRUE, TRUE, FALSE>>, prob |-> 662275],
      [key |-> <<TRUE, FALSE, TRUE, FALSE, FALSE, TRUE>>, prob |-> 644376],
      [key |-> <<TRUE, FALSE, FALSE, FALSE, TRUE, TRUE>>, prob |-> 519081],
      [key |-> <<FALSE, FALSE, TRUE, TRUE, FALSE, TRUE>>, prob |-> 411685],
      [key |-> <<FALSE, TRUE, FALSE, TRUE, FALSE, TRUE>>, prob |-> 375886],
      [key |-> <<FALSE, TRUE, TRUE, TRUE, FALSE, FALSE>>, prob |-> 357986],
      [key |-> <<FALSE, FALSE, TRUE, TRUE, FALSE, FALSE>>, prob |-> 357987],
      [key |-> <<FALSE, TRUE, FALSE, TRUE, FALSE, FALSE>>, prob |-> 357987],
      [key |-> <<FALSE, TRUE, TRUE, TRUE, FALSE, TRUE>>, prob |-> 357986],
      [key |-> <<FALSE, FALSE, FALSE, TRUE, FALSE, TRUE>>, prob |-> 322188],
      [key |-> <<FALSE, FALSE, FALSE, TRUE, FALSE, FALSE>>, prob |-> 268490],
      [key |-> <<TRUE, TRUE, FALSE, FALSE, FALSE, TRUE>>, prob |-> 268490],
      [key |-> <<TRUE, TRUE, TRUE, FALSE, FALSE, TRUE>>, prob |-> 178994],
      [key |-> <<FALSE, FALSE, TRUE, FALSE, FALSE, TRUE>>, prob |-> 161094],
      [key |-> <<FALSE, FALSE, FALSE, FALSE, FALSE, TRUE>>, prob |-> 125295],
      [key |-> <<TRUE, FALSE, FALSE, FALSE, FALSE, TRUE>>, prob |-> 53698]
    >>

joint_probabilities(detected_scenario) ==
    IF detected_scenario = 1 THEN joint_probabilities_1
    ELSE IF detected_scenario = 2 THEN joint_probabilities_2
    ELSE joint_probabilities_3

\* generate_person: the attribute each position of a table key is
\* assigned to, for the three attribute sets it knows
tuple_attrs(constraint_attrs) ==
    IF constraint_attrs = scenario_1_attrs
    THEN <<"young", "well_dressed">>
    ELSE IF constraint_attrs = scenario_2_attrs
    THEN <<"berlin_local", "creative", "techno_lover", "well_connected">>
    ELSE IF constraint_attrs = scenario_3_attrs
    THEN <<"fashion_forward", "german_speaker", "international",
           "queer_friendly", "underground_veteran", "vinyl_collector">>
    ELSE <<>>

\* mutation of first_entry: an entry is taken only when the running sum
\* exceeds the uniform value
RECURSIVE first_entry_strict(_, _, _, _)
first_entry_strict(table, rand_val, i, cumulative) ==
    IF i > Len(table) THEN 0
    ELSE LET c == cumulative + table[i].prob
         IN IF rand_val < c THEN i
            ELSE first_entry_strict(table, rand_val, i + 1, c)

\* generate_person: the loop over the table from entry i on; the index of
\* the entry at which it breaks, 0 when it runs to the end without a break
RECURSIVE first_entry(_, _, _, _)
first_entry(table, rand_val, i, cumulative) ==
    IF i > Len(table) THEN 0
    ELSE LET c == cumulative + table[i].prob
         IN IF rand_val <= c THEN i
            ELSE first_entry(table, rand_val, i + 1, c)

\* generate_person: unpacking a table key into the loop's names raises
\* ValueError when the key has another length
generate_person_raises(constraint_attrs, table) ==
    /\ constraint_attrs \in KnownAttrSets
    /\ Len(table) > 0
    /\ Len(table[1].key) # Len(tuple_attrs(constraint_attrs))

\* generate_person: the attributes of the person drawn with rand_val;
\* every attribute starts False and is assigned only at the break
generate_person_at(constraint_attrs, table, rand_val) ==
    LET names == tuple_attrs(constraint_attrs)
        i == first_entry(table, rand_val, 1, 0)
    IN IF constraint_attrs \notin KnownAttrSets \/ i = 0
       THEN [a \in constraint_attrs |-> FALSE]
       ELSE [a \in constraint_attrs |->
                \E n \in 1..Len(names) : names[n] = a /\ table[i].key[n]]

\* mutation of detected_scenario: an attribute set that is none of the
\* three is taken for scenario 1
detected_scenario_default(constraint_attrs, scenario_number) ==
    IF scenario_number # 0 THEN scenario_number
    ELSE IF constraint_attrs = scenario_2_attrs THEN 2
    ELSE IF constraint_attrs = scenario_3_attrs THEN 3
    ELSE 1

\* PersonGenerator.__init__: the scenario detected, 0 when none is.  A
\* scenario_number of 0 stands for None (and for 0: both fail the test
\* "if scenario_number").
detected_scenario(constraint_attrs, scenario_number) ==
    IF scenario_number # 0 THEN scenario_number
    ELSE IF constraint_attrs = scenario_1_attrs THEN 1
    ELSE IF constraint_attrs = scenario_2_attrs THEN 2
    ELSE IF constraint_attrs = scenario_3_attrs THEN 3
    ELSE 0

\* PersonGenerator.__init__ raises ValueError: no scenario determined, or
\* a scenario number that is none of 1, 2, 3
PersonGenerator_raises(constraint_attrs, scenario_number) ==
    detected_scenario(constraint_attrs, scenario_number) \notin {1, 2, 3}

(***************************************************************************)
(* SimulationEngine                                                        *)
(***************************************************************************)
\* SimulationEngine.__init__
SimulationEngine(constraints, venue_capacity, max_rejections, scenario_number) ==
    [constraints |-> constraints,
     attribute_frequencies |-> attribute_frequencies(scenario_number),
     person_index |-> 0,
     admitted_count |-> 0,
     rejected_count |-> 0,
     current_attribute_counts |-> ZeroCounts(DOMAIN constraints),
     status |-> "not_started",
     max_rejections |-> max_rejections,
     venue_capacity |-> venue_capacity,
     last_person_sent |-> NoPerson]

NoResult ==
    [keys |-> {}, status |-> "none", nextPerson |-> NoPerson,
     rejectedCount |-> 0, admittedCount |-> 0,
     attributeCounts |-> EmptyMap, constraints |-> <<>>,
     relativeFrequencies |-> EmptyMap]

\* mutation of start_game: the attribute counts of the last game are kept
start_game_keeps_counts(s) ==
    [s EXCEPT !.person_index = 0,
              !.admitted_count = 0,
              !.rejected_count = 0,
              !.status = "running",
              !.last_person_sent = NoPerson]

\* SimulationEngine.start_game: the engine after the call
start_game(s) ==
    [s EXCEPT !.person_index = 0,
              !.admitted_count = 0,
              !.rejected_count = 0,
              !.current_attribute_counts = ZeroCounts(DOMAIN s.constraints),
              !.status = "running",
              !.last_person_sent = NoPerson]

\* start_game: the list built from the constraints dict, one
\* {attribute, minCount} entry per item (in the order of the dict, which is
\* some fixed order of its keys)
RECURSIVE constraints_list(_)
constraints_list(constraints) ==
    IF DOMAIN constraints = {} THEN <<>>
    ELSE LET k == CHOOSE k \in DOMAIN constraints : TRUE
         IN <<[attribute |-> k, minCount |-> constraints[k]]>>
                \o constraints_list([a \in DOMAIN constraints \ {k} |->
                                        constraints[a]])

\* SimulationEngine.start_game: the game_data it returns
game_data(s) ==
    [NoResult EXCEPT !.keys = {"gameId", "constraints", "attributeStatistics"},
                     !.status = "started",
                     !.constraints = constraints_list(s.constraints),
                     !.relativeFrequencies = s.attribute_frequencies]

\* mutation of ProcessDecision: an admission counts every constrained
\* attribute, whether the person has it or not
ProcessDecision_count_all(s, d) ==
    IF d # "None" /\ s.last_person_sent # NoPerson
    THEN IF d = "True"
         THEN [s EXCEPT !.admitted_count = @ + 1,
                        !.current_attribute_counts =
                            [a \in DOMAIN @ |-> @[a] + 1]]
         ELSE [s EXCEPT !.rejected_count = @ + 1]
    ELSE s

\* decide_and_next, first part: the decision for the previous person
ProcessDecision(s, d) ==
    IF d # "None" /\ s.last_person_sent # NoPerson
    THEN IF d = "True"
         THEN [s EXCEPT !.admitted_count = @ + 1,
                        !.current_attribute_counts =
                            [a \in DOMAIN @ |->
                                IF a \in Present(s.last_person_sent.attributes)
                                THEN @[a] + 1 ELSE @[a]]]
         ELSE [s EXCEPT !.rejected_count = @ + 1]
    ELSE s

\* mutation of VenueFull: the venue counts as full one admission late
VenueFull_late(s) == s.admitted_count > s.venue_capacity

\* decide_and_next, second part: the game-over conditions
VenueFull(s) == s.admitted_count >= s.venue_capacity

\* mutation of GameOver: the game fails one rejection late
GameOver_budget_late(s) ==
    IF VenueFull(s) THEN "completed"
    ELSE IF s.rejected_count > s.max_rejections THEN "failed"
    ELSE "running"

GameOver(s) ==
    IF VenueFull(s) THEN "completed"
    ELSE IF s.rejected_count >= s.max_rejections THEN "failed"
    ELSE "running"

\* SimulationEngine._get_final_state
_get_final_state(s) ==
    [NoResult EXCEPT !.keys = {"status", "rejectedCount", "admittedCount",
                               "attributeCounts", "reason"},
                     !.status = s.status,
                     !.rejectedCount = s.rejected_count,
                     !.admittedCount = s.admitted_count,
                     !.attributeCounts = s.current_attribute_counts]

\* mutation of decide_and_next: a decision is processed whatever the status
decide_and_next_any_status(s, d, attrs) ==
    LET s1 == ProcessDecision(s, d)
        over == GameOver(s1)
    IN IF over # "running"
       THEN [s1 EXCEPT !.status = over]
       ELSE [s1 EXCEPT !.last_person_sent =
                           [personIndex |-> s1.person_index, attributes |-> attrs],
                       !.person_index = @ + 1]

\* mutation of decide_and_next: the index is advanced before the person is
\* given it
decide_and_next_index_after(s, d, attrs) ==
    IF s.status # "running" THEN s
    ELSE LET s1 == ProcessDecision(s, d)
             over == GameOver(s1)
         IN IF over # "running"
            THEN [s1 EXCEPT !.status = over]
            ELSE [s1 EXCEPT !.last_person_sent =
                                [personIndex |-> s1.person_index + 1,
                                 attributes |-> attrs],
                            !.person_index = @ + 1]

\* mutation of decide_and_next: the next person is drawn before the
\* game-over conditions are checked
decide_and_next_draw_first(s, d, attrs) ==
    IF s.status # "running" THEN s
    ELSE LET s1 == ProcessDecision(s, d)
             s2 == [s1 EXCEPT !.last_person_sent =
                                  [personIndex |-> s1.person_index,
                                   attributes |-> attrs],
                              !.person_index = @ + 1]
         IN [s2 EXCEPT !.status = GameOver(s1)]

\* SimulationEngine.decide_and_next: the engine after the call, attrs being
\* the attribute map drawn if a next person is generated
decide_and_next(s, d, attrs) ==
    IF s.status # "running" THEN s
    ELSE LET s1 == ProcessDecision(s, d)
             over == GameOver(s1)
         IN IF over # "running"
            THEN [s1 EXCEPT !.status = over]
            ELSE [s1 EXCEPT !.last_person_sent =
                                [personIndex |-> s1.person_index, attributes |-> attrs],
                            !.person_index = @ + 1]

\* SimulationEngine.decide_and_next: the response, s being the engine
\* before the call and t the engine after it
decide_and_next_response(s, t) ==
    IF s.status # "running"
    THEN [NoResult EXCEPT !.keys = {"status", "reason"}, !.status = s.status]
    ELSE IF t.status # "running"
    THEN _get_final_state(t)
    ELSE [NoResult EXCEPT !.keys = {"status", "nextPerson", "rejectedCount"},
                          !.status = t.status,
                          !.nextPerson = t.last_person_sent,
                          !.rejectedCount = t.rejected_count]

(***************************************************************************)
(* Exact arithmetic for the scenario-3 score.  Scores and thresholds are   *)
(* ratios of integers too large for one machine word, so they are compared *)
(* after cross-multiplication on naturals held as little-endian sequences  *)
(* of limbs below Base.                                                    *)
(***************************************************************************)
Base == 10000

RECURSIVE BigOf(_)
BigOf(n) == IF n = 0 THEN <<>> ELSE <<n % Base>> \o BigOf(n \div Base)

RECURSIVE BigMulCarry(_, _, _)
BigMulCarry(x, k, c) ==
    IF x = <<>> THEN BigOf(c)
    ELSE LET t == x[1] * k + c
         IN <<t % Base>> \o BigMulCarry(Tail(x), k, t \div Base)

\* x * k for a big x and a word k in 0..200000
BigMul(x, k) == IF k = 0 THEN <<>> ELSE BigMulCarry(x, k, 0)

RECURSIVE BigAddCarry(_, _, _)
BigAddCarry(x, y, c) ==
    IF x = <<>> /\ y = <<>> THEN BigOf(c)
    ELSE LET a == IF x = <<>> THEN 0 ELSE x[1]
             b == IF y = <<>> THEN 0 ELSE y[1]
             t == a + b + c
         IN <<t % Base>> \o BigAddCarry(IF x = <<>> THEN <<>> ELSE Tail(x),
                                       IF y = <<>> THEN <<>> ELSE Tail(y),
                                       t \div Base)

BigAdd(x, y) == BigAddCarry(x, y, 0)

RECURSIVE BigGeqSameLen(_, _, _)
BigGeqSameLen(x, y, i) ==
    IF i = 0 THEN TRUE
    ELSE IF x[i] # y[i] THEN x[i] > y[i]
    ELSE BigGeqSameLen(x, y, i - 1)

\* x >= y
BigGeq(x, y) ==
    IF Len(x) # Len(y) THEN Len(x) > Len(y)
    ELSE BigGeqSameLen(x, y, Len(x))

Abs(n) == IF n < 0 THEN -n ELSE n

MaxOf(S) == IF S = {} THEN 0 ELSE CHOOSE m \in S : \A n \in S : n <= m

(***************************************************************************)
(* The controllers.  A controller object is a record; the operators below  *)
(* take it as b and a person's attribute map as person_attributes.         *)
(***************************************************************************)
phase1_threshold == 1200

\* AdaptiveBouncer.__init__ / SimpleBouncer.__init__
Bouncer(scenario, capacity) ==
    [scenario |-> scenario, VENUE_CAPACITY |-> capacity,
     constraints |-> EmptyMap, attribute_stats |-> EmptyMap,
     current_attribute_counts |-> EmptyMap,
     admitted_count |-> 0, rejected_count |-> 0, people_seen |-> 0]

\* start_new_game: the dict built from the constraints list of the
\* response, a later entry replacing an earlier one of the same attribute
constraints_dict(list) ==
    [a \in {list[i].attribute : i \in DOMAIN list} |->
        LET last == CHOOSE i \in DOMAIN list :
                        /\ list[i].attribute = a
                        /\ \A j \in DOMAIN list :
                               list[j].attribute = a => j <= i
        IN list[last].minCount]

\* start_new_game, given the game data of the response
start_new_game(b, data) ==
    [b EXCEPT !.constraints = constraints_dict(data.constraints),
              !.attribute_stats = data.relativeFrequencies,
              !.current_attribute_counts =
                  [a \in DOMAIN @ \cup DOMAIN constraints_dict(data.constraints) |->
                      IF a \in DOMAIN constraints_dict(data.constraints)
                      THEN 0 ELSE @[a]],
              !.admitted_count = 0,
              !.rejected_count = 0,
              !.people_seen = 0]

\* mutation of _are_constraints_met: a constraint counts as met only once
\* it is exceeded
_are_constraints_met_strict(b) ==
    \A a \in DOMAIN b.constraints :
        Get(b.current_attribute_counts, a, 0) > b.constraints[a]

\* _are_constraints_met (the same in the three controllers)
_are_constraints_met(b) ==
    \A a \in DOMAIN b.constraints :
        Get(b.current_attribute_counts, a, 0) >= b.constraints[a]

\* _is_feasible: needed_count of one attribute under the accept branch
needed_count(b, person_attributes, a) ==
    LET needed == b.constraints[a] - b.current_attribute_counts[a]
    IN IF Get(person_attributes, a, FALSE)
       THEN (IF needed - 1 > 0 THEN needed - 1 ELSE 0)
       ELSE needed

\* mutation of _is_feasible: the slot the person takes is not deducted
_is_feasible_no_deduction(b, person_attributes) ==
    LET remaining_slots == b.VENUE_CAPACITY - b.admitted_count
    IN \A a \in DOMAIN b.constraints :
           ~ (needed_count(b, person_attributes, a) > remaining_slots)

\* _is_feasible (the same in scenario_1.py and scenario_3.py)
_is_feasible(b, person_attributes) ==
    LET remaining_slots == b.VENUE_CAPACITY - b.admitted_count - 1
    IN \A a \in DOMAIN b.constraints :
           ~ (needed_count(b, person_attributes, a) > remaining_slots)

\* ---- scenario_3.py ----------------------------------------------------

\* the attributes that add to the score: present, constrained, still needed
helpful(b, person_attributes) ==
    {a \in Present(person_attributes) \cap DOMAIN b.constraints :
        b.constraints[a] - Get(b.current_attribute_counts, a, 0) > 0}

\* relativeFrequencies.get(attr, 0.001), as a numerator over FreqDen
frequency(b, a) == Get(b.attribute_stats, a, 100)

RECURSIVE FreqProduct(_, _)
FreqProduct(b, S) ==
    IF S = {} THEN BigOf(1)
    ELSE LET a == CHOOSE x \in S : TRUE
         IN BigMul(FreqProduct(b, S \ {a}), frequency(b, a))

\* sum over a in S of needed(a) / frequency(a), as a numerator over
\* FreqProduct(b, H) / FreqDen
RECURSIVE ScoreNumerator(_, _, _)
ScoreNumerator(b, H, S) ==
    IF S = {} THEN <<>>
    ELSE LET a == CHOOSE x \in S : TRUE
             needed == b.constraints[a] - Get(b.current_attribute_counts, a, 0)
         IN BigAdd(BigMul(FreqProduct(b, H \ {a}), needed),
                   ScoreNumerator(b, H, S \ {a}))

\* the multi-constraint bonus, in halves: score *= 1.5, then score *= 2.0
bonus_halves(helpful_constraints) ==
    LET first == IF helpful_constraints >= 2 THEN 3 ELSE 2
    IN IF helpful_constraints >= 3 THEN first * 2 ELSE first

\* _get_desperation_threshold: the largest needed count among the
\* constraints that are still unmet (max_desperation * remaining_slots)
max_needed(b) ==
    MaxOf({0} \cup
          {b.constraints[a] - Get(b.current_attribute_counts, a, 0) :
              a \in DOMAIN b.constraints})

\* mutation of desperation_threshold: no minimum threshold
desperation_threshold_no_minimum(needed, remaining_slots) ==
    LET gap == remaining_slots - needed
    IN IF remaining_slots <= 0 THEN [num |-> 0, den |-> 1]
       ELSE [num |-> 2 * gap * gap, den |-> remaining_slots * remaining_slots]

\* _get_desperation_threshold, as a fraction num / den, for the largest
\* needed count and the remaining slots: 0 when no slot is left, else
\* max(0.1, 2.0 * (1 - needed / remaining_slots) ^ 2)
desperation_threshold(needed, remaining_slots) ==
    LET gap == remaining_slots - needed
    IN IF remaining_slots <= 0 THEN [num |-> 0, den |-> 1]
       ELSE IF 10 * (2 * gap * gap) >= remaining_slots * remaining_slots
       THEN [num |-> 2 * gap * gap, den |-> remaining_slots * remaining_slots]
       ELSE [num |-> 1, den |-> 10]

\* AdaptiveBouncer._get_desperation_threshold
_get_desperation_threshold(b) ==
    desperation_threshold(max_needed(b), b.VENUE_CAPACITY - b.admitted_count)

\* _should_accept_advanced: score >= threshold, where
\*   score     = bonus * sum of (needed / remaining) * (1 / frequency)
\*   threshold = max(0.1, 2.0 * (1 - max_needed / remaining) ^ 2)
_should_accept_advanced(b, person_attributes) ==
    LET H == helpful(b, person_attributes)
        remaining == b.VENUE_CAPACITY - b.admitted_count
        num == BigMul(BigMul(ScoreNumerator(b, H, H), FreqDen),
                      bonus_halves(Cardinality(H)))
        den == FreqProduct(b, H)
        gap == Abs(remaining - max_needed(b))
    IN IF remaining <= 0 THEN TRUE
       ELSE /\ BigGeq(BigMul(num, remaining),
                      BigMul(BigMul(BigMul(den, gap), gap), 4))
            /\ BigGeq(BigMul(num, 10), BigMul(BigMul(den, remaining), 2))

\* mutation of _make_decision_logic_3: no bottleneck override, the rare
\* attributes go to the limit check and the score like the others
_make_decision_logic_3_no_override(b, person_attributes) ==
    IF ~ _is_feasible(b, person_attributes) THEN FALSE
    ELSE IF _are_constraints_met(b) THEN TRUE
    ELSE LET german_speaker == Get(person_attributes, "german_speaker", FALSE)
             max_non_german == b.VENUE_CAPACITY - Get(b.constraints, "german_speaker", 0)
             current_non_german ==
                 b.admitted_count - Get(b.current_attribute_counts, "german_speaker", 0)
             remaining_non_german_slots == max_non_german - current_non_german
         IN IF ~ german_speaker /\ remaining_non_german_slots <= 0 THEN FALSE
            ELSE _should_accept_advanced(b, person_attributes)

\* mutation of _make_decision_logic_3: the bottleneck override is tried
\* before the feasibility check
_make_decision_logic_3_override_first(b, person_attributes) ==
    IF Get(person_attributes, "queer_friendly", FALSE)
       \/ Get(person_attributes, "vinyl_collector", FALSE) THEN TRUE
    ELSE IF ~ _is_feasible(b, person_attributes) THEN FALSE
    ELSE IF _are_constraints_met(b) THEN TRUE
    ELSE LET german_speaker == Get(person_attributes, "german_speaker", FALSE)
             max_non_german == b.VENUE_CAPACITY - Get(b.constraints, "german_speaker", 0)
             current_non_german ==
                 b.admitted_count - Get(b.current_attribute_counts, "german_speaker", 0)
             remaining_non_german_slots == max_non_german - current_non_german
         IN IF ~ german_speaker /\ remaining_non_german_slots <= 0 THEN FALSE
            ELSE _should_accept_advanced(b, person_attributes)

\* AdaptiveBouncer._make_decision_logic of scenario_3.py
_make_decision_logic_3(b, person_attributes) ==
    IF ~ _is_feasible(b, person_attributes) THEN FALSE
    ELSE IF _are_constraints_met(b) THEN TRUE
    ELSE IF Get(person_attributes, "queer_friendly", FALSE)
            \/ Get(person_attributes, "vinyl_collector", FALSE) THEN TRUE
    ELSE LET german_speaker == Get(person_attributes, "german_speaker", FALSE)
             max_non_german == b.VENUE_CAPACITY - Get(b.constraints, "german_speaker", 0)
             current_non_german ==
                 b.admitted_count - Get(b.current_attribute_counts, "german_speaker", 0)
             remaining_non_german_slots == max_non_german - current_non_german
         IN IF ~ german_speaker /\ remaining_non_german_slots <= 0 THEN FALSE
            ELSE _should_accept_advanced(b, person_attributes)

\* ---- scenario_1.py ----------------------------------------------------

has_any_attribute(b, person_attributes) ==
    \E a \in DOMAIN b.constraints : Get(person_attributes, a, FALSE)

total_needed(b) ==
    LET need(a) == b.constraints[a] - Get(b.current_attribute_counts, a, 0)
        RECURSIVE Sum(_)
        Sum(S) == IF S = {} THEN 0
                  ELSE LET a == CHOOSE x \in S : TRUE
                       IN (IF need(a) > 0 THEN need(a) ELSE 0) + Sum(S \ {a})
    IN Sum(DOMAIN b.constraints)

\* mutation of _make_decision_logic_1: the feasibility check comes first
_make_decision_logic_1_gate_first(b, person_attributes) ==
    LET young_count == Get(b.current_attribute_counts, "young", 0)
        well_dressed_count == Get(b.current_attribute_counts, "well_dressed", 0)
    IN IF ~ _is_feasible(b, person_attributes) THEN FALSE
       ELSE IF young_count >= 600 /\ well_dressed_count >= 600 THEN TRUE
       ELSE IF b.admitted_count < phase1_threshold
       THEN has_any_attribute(b, person_attributes)
       ELSE IF _are_constraints_met(b) THEN TRUE
       ELSE IF ~ has_any_attribute(b, person_attributes)
       THEN b.VENUE_CAPACITY - b.admitted_count - 1 >= total_needed(b)
       ELSE TRUE

\* AdaptiveBouncer._make_decision_logic of scenario_1.py
_make_decision_logic_1(b, person_attributes) ==
    LET young_count == Get(b.current_attribute_counts, "young", 0)
        well_dressed_count == Get(b.current_attribute_counts, "well_dressed", 0)
    IN IF young_count >= 600 /\ well_dressed_count >= 600 THEN TRUE
       ELSE IF b.admitted_count < phase1_threshold
       THEN has_any_attribute(b, person_attributes)
       ELSE IF _are_constraints_met(b) THEN TRUE
       ELSE IF ~ has_any_attribute(b, person_attributes)
       THEN IF ~ _is_feasible(b, person_attributes) THEN FALSE
            ELSE b.VENUE_CAPACITY - b.admitted_count - 1 >= total_needed(b)
       ELSE _is_feasible(b, person_attributes)

\* ---- scenario_2.py ----------------------------------------------------

\* SimpleBouncer._make_decision_logic of scenario_2.py; the closing
\* "if self._are_constraints_met()" comes after an if/else whose every
\* branch returns
_make_decision_logic_2(b, person_attributes) ==
    LET well_connected_count == Get(b.current_attribute_counts, "well_connected", 0)
        techno_lover_count == Get(b.current_attribute_counts, "techno_lover", 0)
    IN IF b.admitted_count >= b.VENUE_CAPACITY THEN FALSE
       ELSE IF Get(person_attributes, "creative", FALSE) THEN TRUE
       ELSE IF /\ Get(person_attributes, "techno_lover", FALSE)
               /\ Get(person_attributes, "well_connected", FALSE)
               /\ Get(person_attributes, "berlin_local", FALSE)
       THEN IF well_connected_count < 450 THEN TRUE
            ELSE IF techno_lover_count < 650 THEN TRUE
            ELSE FALSE
       ELSE IF well_connected_count >= 450 /\ techno_lover_count >= 650
       THEN Get(person_attributes, "berlin_local", FALSE)
       ELSE FALSE

\* ---- the part the three controllers share -------------------------------

_make_decision_logic(b, person_attributes) ==
    IF b.scenario = 1 THEN _make_decision_logic_1(b, person_attributes)
    ELSE IF b.scenario = 2 THEN _make_decision_logic_2(b, person_attributes)
    ELSE _make_decision_logic_3(b, person_attributes)

\* _should_accept_advanced: "rarity_weight = 1 / frequency" raises
\* ZeroDivisionError for a helpful attribute whose frequency is 0
_should_accept_advanced_raises(b, person_attributes) ==
    \E a \in helpful(b, person_attributes) : frequency(b, a) = 0

\* _make_decision_logic of scenario_3.py gets as far as the score and the
\* score raises; the other two controllers read no frequency
_make_decision_logic_raises(b, person_attributes) ==
    /\ b.scenario = 3
    /\ _is_feasible(b, person_attributes)
    /\ ~ _are_constraints_met(b)
    /\ ~ (Get(person_attributes, "queer_friendly", FALSE)
            \/ Get(person_attributes, "vinyl_collector", FALSE))
    /\ ~ (/\ ~ Get(person_attributes, "german_speaker", FALSE)
          /\ (b.VENUE_CAPACITY - Get(b.constraints, "german_speaker", 0))
               - (b.admitted_count
                  - Get(b.current_attribute_counts, "german_speaker", 0)) <= 0)
    /\ _should_accept_advanced_raises(b, person_attributes)

\* make_decision: the call raises instead of returning
make_decision_raises(b, person) == _make_decision_logic_raises(b, person.attributes)

\* make_decision: the decision returned
make_decision(b, person) == _make_decision_logic(b, person.attributes)

\* make_decision: the controller after the call (scenario_1.py counts the
\* person in _track_attribute_combinations)
_track_attribute_combinations(b) ==
    IF b.scenario = 1 THEN [b EXCEPT !.people_seen = @ + 1] ELSE b

\* mutation of update_tracking: an admission adds one to the count of
\* every attribute, whether the person has it or not
update_tracking_count_all(b, person, accepted) ==
    IF accepted
    THEN [b EXCEPT !.admitted_count = @ + 1,
                   !.current_attribute_counts = [a \in DOMAIN @ |-> @[a] + 1]]
    ELSE [b EXCEPT !.rejected_count = @ + 1]

\* run_game: the tracking update that follows the response
update_tracking(b, person, accepted) ==
    IF accepted
    THEN [b EXCEPT !.admitted_count = @ + 1,
                   !.current_attribute_counts =
                       [a \in DOMAIN @ |->
                           IF a \in Present(person.attributes)
                           THEN @[a] + 1 ELSE @[a]]]
    ELSE [b EXCEPT !.rejected_count = @ + 1]

\* _get_next_person / mock_urlopen: the decision as it reaches the harness
\* ("&accept=true" / "&accept=false" in the URL, read back by the mock)
accept_param(accept) == IF accept THEN "True" ELSE "False"

\* run_game: the loop condition
loop_condition(res, person) == res.status = "running" /\ person # NoPerson

(***************************************************************************)
(* The harness on its own: any caller, any decision.                       *)
(***************************************************************************)
Decisions == {"True", "False", "None"}

\* the constraint maps of a scaled-down run: every minCount within capacity
SmallConstraints(keys) == [keys -> 0..Cap]

InitHarness ==
    /\ \E c \in SmallConstraints(scenario_1_attrs) :
           sim = SimulationEngine(c, Cap, MaxRejections, 1)
    /\ bouncer = Bouncer(0, 0)
    /\ pc = "harness"
    /\ result = NoResult
    /\ next_person = NoPerson
    /\ decision = FALSE
    /\ arrivals = "joint"

StartGame ==
    /\ pc = "harness"
    /\ sim' = start_game(sim)
    /\ result' = game_data(sim')
    /\ UNCHANGED <<bouncer, pc, next_person, decision, arrivals>>

DecideAndNext ==
    /\ pc = "harness"
    /\ sim.person_index < MaxPersonIndex
    /\ \E d \in Decisions :
       \E attrs \in generate_person(sim, arrivals) :
           /\ sim' = decide_and_next(sim, d, attrs)
           /\ result' = decide_and_next_response(sim, sim')
    /\ UNCHANGED <<bouncer, pc, next_person, decision, arrivals>>

NextHarness == StartGame \/ DecideAndNext

SpecHarness == InitHarness /\ [][NextHarness]_vars

\* a caller that gives a decision in every call but the first of a game
DecideAndNextDecided ==
    /\ pc = "harness"
    /\ \E d \in IF sim.last_person_sent = NoPerson
                THEN {"None"} ELSE {"True", "False"} :
       \E attrs \in generate_person(sim, arrivals) :
           /\ sim' = decide_and_next(sim, d, attrs)
           /\ result' = decide_and_next_response(sim, sim')
    /\ UNCHANGED <<bouncer, pc, next_person, decision, arrivals>>

NextDecided == StartGame \/ DecideAndNextDecided

SpecDecided == InitHarness /\ [][NextDecided]_vars

(***************************************************************************)
(* A controller's run_game against the harness (run_local_simulation.py    *)
(* routes the controller's two requests to start_game and decide_and_next).*)
(***************************************************************************)
\* run_game: start_new_game
StartNewGame ==
    /\ pc = "start"
    /\ sim' = start_game(sim)
    /\ result' = game_data(sim')
    /\ bouncer' = start_new_game(bouncer, result')
    /\ pc' = "first"
    /\ UNCHANGED <<next_person, decision, arrivals>>

\* run_game: the request for the first person, which carries no decision
GetFirstPerson ==
    /\ pc = "first"
    /\ \E attrs \in generate_person(sim, arrivals) :
           /\ sim' = decide_and_next(sim, "None", attrs)
           /\ result' = decide_and_next_response(sim, sim')
    /\ next_person' = result'.nextPerson
    /\ pc' = IF loop_condition(result', next_person') THEN "decide" ELSE "done"
    /\ UNCHANGED <<bouncer, decision, arrivals>>

\* run_game: make_decision for the person at the door; an exception
\* raised in it is caught nowhere in run_game and ends the loop
MakeDecision ==
    /\ pc = "decide"
    /\ IF make_decision_raises(bouncer, next_person)
       THEN /\ pc' = "raised"
            /\ UNCHANGED decision
       ELSE /\ decision' = make_decision(bouncer, next_person)
            /\ pc' = "submit"
    /\ bouncer' = _track_attribute_combinations(bouncer)
    /\ UNCHANGED <<sim, result, next_person, arrivals>>

\* run_game: the rest of the loop body; the decision is sent, the harness
\* answers, the controller updates its own counts and takes the next person
SubmitDecision ==
    /\ pc = "submit"
    /\ \E attrs \in generate_person(sim, arrivals) :
           /\ sim' = decide_and_next(sim, accept_param(decision), attrs)
           /\ result' = decide_and_next_response(sim, sim')
    /\ bouncer' = update_tracking(bouncer, next_person, decision)
    /\ next_person' = result'.nextPerson
    /\ pc' = IF loop_condition(result', next_person') THEN "decide" ELSE "done"
    /\ UNCHANGED <<decision, arrivals>>

NextRun == StartNewGame \/ GetFirstPerson \/ MakeDecision \/ SubmitDecision

\* scaled-down runs: capacity Cap on both sides, budget MaxRejections
\* either the scenario-1 attributes with every person arriving, or the
\* scenario-3 attributes with three of them constrained and varying
InitRun ==
    /\ \/ /\ \E c \in SmallConstraints(scenario_1_attrs) :
                  sim = SimulationEngine(c, Cap, MaxRejections, 1)
          /\ arrivals = "joint"
       \/ /\ \E m \in SmallConstraints(LogicAttrs3) :
                  sim = SimulationEngine(
                            [a \in scenario_3_attrs |->
                                IF a \in LogicAttrs3 THEN m[a] ELSE 0],
                            Cap, MaxRejections, 3)
          /\ arrivals = "three_vary"
    /\ \E k \in {1, 3} : bouncer = Bouncer(k, Cap)
    /\ pc = "start"
    /\ result = NoResult
    /\ next_person = NoPerson
    /\ decision = FALSE

SpecRun == InitRun /\ [][NextRun]_vars

\* full-scale runs: capacity 1000, budget 20000, one kind of person arriving
Streams == {"both", "young_only", "well_dressed_only", "neither"}

InitFull ==
    /\ sim = SimulationEngine(SCENARIO_1_CONFIG.constraints,
                              SCENARIO_1_CONFIG.venue_capacity, MAX_REJECTIONS, 1)
    /\ \E k \in {1, 3} : bouncer = Bouncer(k, VENUE_CAPACITY)
    /\ pc = "start"
    /\ result = NoResult
    /\ next_person = NoPerson
    /\ decision = FALSE
    /\ arrivals \in Streams

SpecFull == InitFull /\ [][NextRun]_vars

\* the scenario-1 controller at full scale when everybody who arrives is
\* young and well_dressed; run_game is a loop that never waits, so it takes
\* its next step whenever it has one
InitBoth ==
    /\ InitFull
    /\ bouncer.scenario = 1
    /\ arrivals = "both"

FairSpecBoth == InitBoth /\ [][NextRun]_vars /\ WF_vars(NextRun)

\* a venue of AltCap places in which everybody has to be young, with the
\* arrivals alternating between young and not young; well_dressed is never
\* drawn and nobody is required to be
InitAlt ==
    /\ sim = SimulationEngine(
                 [a \in scenario_1_attrs |-> IF a = "young" THEN AltCap ELSE 0],
                 AltCap, MAX_REJECTIONS, 1)
    /\ \E k \in {1, 3} : bouncer = Bouncer(k, AltCap)
    /\ pc = "start"
    /\ result = NoResult
    /\ next_person = NoPerson
    /\ decision = FALSE
    /\ arrivals \in {"alternating", "alternating_from_false"}

SpecAlt == InitAlt /\ [][NextRun]_vars

\* the scenario-1 controller at full scale when more than 1200 people with
\* no attribute arrive first and the later arrivals are mixed
InitLate ==
    /\ sim = SimulationEngine(SCENARIO_1_CONFIG.constraints,
                              SCENARIO_1_CONFIG.venue_capacity, MAX_REJECTIONS, 1)
    /\ bouncer = Bouncer(1, VENUE_CAPACITY)
    /\ pc = "start"
    /\ result = NoResult
    /\ next_person = NoPerson
    /\ decision = FALSE
    /\ arrivals = "late_mix"

SpecLate == InitLate /\ [][NextRun]_vars

\* the scenario-2 controller at full scale when nobody who arrives is
\* creative
InitLocals ==
    /\ sim = SimulationEngine(SCENARIO_2_CONFIG.constraints,
                              SCENARIO_2_CONFIG.venue_capacity, MAX_REJECTIONS, 2)
    /\ bouncer = Bouncer(2, VENUE_CAPACITY)
    /\ pc = "start"
    /\ result = NoResult
    /\ next_person = NoPerson
    /\ decision = FALSE
    /\ arrivals = "locals"

SpecLocals == InitLocals /\ [][NextRun]_vars

(***************************************************************************)
(* The decision procedures on their own: a controller in some admission    *)
(* state, one person at the door, one call of make_decision.               *)
(***************************************************************************)
Near == 1

SmallKeys(k) == IF k = 1 THEN scenario_1_attrs ELSE LogicAttrs3

\* a controller in the middle of a game
BouncerAt(k, capacity, constraints, stats, counts, admitted) ==
    [Bouncer(k, capacity) EXCEPT
        !.constraints = constraints,
        !.attribute_stats = stats,
        !.current_attribute_counts = counts,
        !.admitted_count = admitted]

\* a scaled-down venue: any constraints within capacity, any counts
InitLogicSmall ==
    \E k \in {1, 3} :
    \E c \in SmallConstraints(SmallKeys(k)) :
    \E adm \in 0..Cap :
    \E n \in [SmallKeys(k) -> 0..adm] :
    \E p \in [SmallKeys(k) -> BOOLEAN] :
        /\ bouncer = BouncerAt(k, Cap, c,
                               [a \in SmallKeys(k) |-> attribute_frequencies(k)[a]],
                               n, adm)
        /\ next_person = [personIndex |-> 0, attributes |-> p]
        /\ sim = SimulationEngine(c, Cap, MaxRejections, k)

\* the three scenarios at full scale: every count within Near of its
\* minCount, the venue at its fullest count or within Near + 1 of capacity
Range(f) == {f[a] : a \in DOMAIN f}

InitLogicFull ==
    \E k \in {1, 2, 3} :
    LET c == scenario_configs(k).constraints IN
    \E short \in [DOMAIN c -> 0..Near] :
    LET n == [a \in DOMAIN c |-> c[a] - short[a]] IN
    \E adm \in {MaxOf(Range(n))} \cup ((VENUE_CAPACITY - Near - 1)..VENUE_CAPACITY) :
    \E p \in [DOMAIN c -> BOOLEAN] :
        /\ bouncer = BouncerAt(k, VENUE_CAPACITY, c, attribute_frequencies(k), n, adm)
        /\ next_person = [personIndex |-> 0, attributes |-> p]
        /\ sim = SimulationEngine(c, VENUE_CAPACITY, MAX_REJECTIONS, k)

\* the scenario-3 controller in a scaled-down venue under other population
\* statistics than the harness sends: one attribute with frequency 0, or
\* one attribute missing from relativeFrequencies
StatsVariants(keys, freq) ==
    {freq}
    \cup {[a \in keys |-> IF a = z THEN 0 ELSE freq[a]] : z \in keys}
    \cup {[a \in keys \ {z} |-> freq[a]] : z \in keys}

InitStats ==
    /\ \E c \in SmallConstraints(LogicAttrs3) :
       \E adm \in 0..Cap :
       \E n \in [LogicAttrs3 -> 0..adm] :
       \E p \in [LogicAttrs3 -> BOOLEAN] :
       \E stats \in StatsVariants(LogicAttrs3, attribute_frequencies(3)) :
           /\ bouncer = BouncerAt(3, Cap, c, stats, n, adm)
           /\ next_person = [personIndex |-> 0, attributes |-> p]
           /\ sim = SimulationEngine(c, Cap, MaxRejections, 3)
    /\ pc = "decide"
    /\ result = NoResult
    /\ decision = FALSE
    /\ arrivals = "joint"

SpecStats == InitStats /\ [][MakeDecision]_vars

InitLogic ==
    /\ InitLogicSmall \/ InitLogicFull
    /\ pc = "decide"
    /\ result = NoResult
    /\ decision = FALSE
    /\ arrivals = "joint"

SpecLogic == InitLogic /\ [][MakeDecision]_vars

\* the scenario-3 controller at full scale in the middle of a game, where
\* the score decides: three quarters of the venue filled with german
\* speakers, the german_speaker count 40 to 60 short of its minimum, the
\* other common attributes at most 2 short, the rare ones met
ScoreAdmitted == (3 * VENUE_CAPACITY) \div 4

ScoreShort ==
    {[a \in scenario_3_attrs |->
        IF a = "german_speaker" THEN g
        ELSE IF a = "international" THEN i
        ELSE IF a = "fashion_forward" THEN f
        ELSE IF a = "underground_veteran" THEN u
        ELSE 0] : g \in 40..60, i \in 0..2, f \in 0..2, u \in 0..1}

InitScore ==
    /\ LET c == scenario_configs(3).constraints IN
       \E short \in ScoreShort :
       \E p \in [scenario_3_attrs -> BOOLEAN] :
           /\ ~ p["queer_friendly"] /\ ~ p["vinyl_collector"]
           /\ bouncer = BouncerAt(3, VENUE_CAPACITY, c, attribute_frequencies(3),
                                  [a \in scenario_3_attrs |->
                                      IF c[a] - short[a] <= ScoreAdmitted
                                      THEN c[a] - short[a] ELSE ScoreAdmitted],
                                  ScoreAdmitted)
           /\ next_person = [personIndex |-> 0, attributes |-> p]
           /\ sim = SimulationEngine(c, VENUE_CAPACITY, MAX_REJECTIONS, 3)
    /\ pc = "decide"
    /\ result = NoResult
    /\ decision = FALSE
    /\ arrivals = "joint"

SpecScore == InitScore /\ [][MakeDecision]_vars

(***************************************************************************)
(* generate_person on its own: a generator, one uniform value, one call.   *)
(* arrivals holds the generator's table and the value random.random()      *)
(* returns.                                                                *)
(***************************************************************************)
\* the running sum after entry i
RECURSIVE Cumulative(_, _)
Cumulative(table, i) ==
    IF i = 0 THEN 0 ELSE Cumulative(table, i - 1) + table[i].prob

\* the uniform values drawn: the two ends of the range of random.random()
\* and, for each entry, its running sum and the value just above it
RandVals(table) ==
    {u \in {0, ProbDen - 1}
          \cup {Cumulative(table, i) : i \in 1..Len(table)}
          \cup {Cumulative(table, i) + 1 : i \in 1..Len(table)} :
        u < ProbDen}

\* a table whose probabilities sum to slightly less than 1: the last
\* entry two units short
ShortTable(table) == [table EXCEPT ![Len(table)].prob = @ - 2]

\* a generator for scenario k holding the given table, and one uniform value
Sample(k, table) ==
    /\ \E u \in RandVals(table) :
           /\ sim = SimulationEngine(scenario_configs(k).constraints,
                                     scenario_configs(k).venue_capacity,
                                     MAX_REJECTIONS, k)
           /\ arrivals = [joint_probabilities |-> table, rand_val |-> u]
    /\ bouncer = Bouncer(0, 0)
    /\ pc = "generate"
    /\ result = NoResult
    /\ next_person = NoPerson
    /\ decision = FALSE

\* the three built-in tables
InitSample == \E k \in 1..3 : Sample(k, joint_probabilities(k))

\* the three built-in tables made short of 1
InitShort == \E k \in 1..3 : Sample(k, ShortTable(joint_probabilities(k)))

GeneratePerson ==
    /\ pc = "generate"
    /\ next_person' =
           [personIndex |-> -1,
            attributes |-> generate_person_at(DOMAIN sim.constraints,
                                              arrivals.joint_probabilities,
                                              arrivals.rand_val)]
    /\ pc' = "generated"
    /\ UNCHANGED <<sim, bouncer, result, decision, arrivals>>

SpecSample == InitSample /\ [][GeneratePerson]_vars

SpecShort == InitShort /\ [][GeneratePerson]_vars

(***************************************************************************)
(* Construction of the harness from any configuration, then any caller.    *)
(* arrivals holds the arguments of SimulationEngine(...).                  *)
(***************************************************************************)
\* no engine has been constructed
NoEngine == [status |-> "no_engine"]

\* the attribute sets tried: the three known ones, the empty one, a part
\* of a known one and a known one with one attribute more
ConstructKeys ==
    {scenario_1_attrs, scenario_2_attrs, scenario_3_attrs,
     {}, {"young"}, scenario_1_attrs \cup {"creative"}}

\* the scenario numbers tried: none (0), the three known ones and one more
ScenarioNumbers == 0..4

\* the uniform values drawn: both ends of the range and the middle
SampleVals == {0, ProbDen \div 2, ProbDen - 1}

InitConstruct ==
    /\ \E keys \in ConstructKeys :
       \E n \in ScenarioNumbers :
           arrivals = [scenario_config |->
                           [constraints |-> [a \in keys |-> 1],
                            venue_capacity |-> Cap],
                       scenario_number |-> n]
    /\ sim = NoEngine
    /\ bouncer = Bouncer(0, 0)
    /\ pc = "construct"
    /\ result = NoResult
    /\ next_person = NoPerson
    /\ decision = FALSE

\* SimulationEngine(scenario_config, scenario_number)
Construct ==
    /\ pc = "construct"
    /\ LET c == arrivals.scenario_config.constraints
           n == arrivals.scenario_number
       IN IF PersonGenerator_raises(DOMAIN c, n)
          THEN /\ pc' = "construction_error"
               /\ UNCHANGED sim
          ELSE /\ pc' = "harness"
               /\ sim' = SimulationEngine(c, arrivals.scenario_config.venue_capacity,
                                          MaxRejections,
                                          detected_scenario(DOMAIN c, n))
    /\ UNCHANGED <<bouncer, result, next_person, decision, arrivals>>

\* decide_and_next of the constructed engine, the person generated from the
\* table of the detected scenario; when generate_person raises, the
\* decision has been applied and no response is returned
DecideAndNextSampled ==
    /\ pc = "harness"
    /\ sim.person_index < MaxPersonIndex
    /\ \E d \in Decisions :
       \E u \in SampleVals :
           LET keys == DOMAIN sim.constraints
               table == joint_probabilities(
                            detected_scenario(keys, arrivals.scenario_number))
               draws == /\ sim.status = "running"
                        /\ GameOver(ProcessDecision(sim, d)) = "running"
           IN IF draws /\ generate_person_raises(keys, table)
              THEN /\ sim' = ProcessDecision(sim, d)
                   /\ pc' = "raised"
                   /\ UNCHANGED result
              ELSE /\ sim' = decide_and_next(sim, d,
                                             generate_person_at(keys, table, u))
                   /\ result' = decide_and_next_response(sim, sim')
                   /\ UNCHANGED pc
    /\ UNCHANGED <<bouncer, next_person, decision, arrivals>>

NextConstruct == Construct \/ StartGame \/ DecideAndNextSampled

SpecConstruct == InitConstruct /\ [][NextConstruct]_vars

(***************************************************************************)
(* Properties.                                                             *)
(***************************************************************************)
\* the state of the decision spec after make_decision has returned
Decided(k) == pc = "submit" /\ bouncer.scenario = k

\* stage 1 fails for some attribute: the count still needed once the person
\* is in exceeds the slots left once the person is in
StageOneFails(b, attrs) ==
    \E a \in DOMAIN b.constraints :
        LET short == b.constraints[a] - b.current_attribute_counts[a]
            needed == IF a \in Present(attrs)
                      THEN (IF short - 1 < 0 THEN 0 ELSE short - 1)
                      ELSE short
        IN needed > b.VENUE_CAPACITY - b.admitted_count - 1

\* every constraint has its minimum count
Saturated(b) ==
    \A a \in DOMAIN b.constraints : b.current_attribute_counts[a] >= b.constraints[a]

\* C1: in the scenario-3 controller a person for whom stage 1 fails is
\* rejected, whatever the other attributes, the bottleneck override or the
\* score would say.
C1_GateRejects ==
    (Decided(3) /\ StageOneFails(bouncer, next_person.attributes))
        => decision = FALSE

\* stage 1 fails for a person who carries a bottleneck attribute while a
\* constraint is unmet, so that the override alone would let the person in
C1_Witness ==
    /\ Decided(3)
    /\ StageOneFails(bouncer, next_person.attributes)
    /\ "queer_friendly" \in Present(next_person.attributes)
    /\ ~ Saturated(bouncer)
    /\ bouncer.admitted_count < bouncer.VENUE_CAPACITY
    /\ decision = FALSE

\* C2: the scenario-1 and scenario-2 controllers reject every person for
\* whom stage 1 fails, as the scenario-3 controller does.
C2_GateInEveryVariant ==
    ((Decided(1) \/ Decided(2)) /\ StageOneFails(bouncer, next_person.attributes))
        => decision = FALSE

\* C3: in the scenario-3 controller, once every constraint is met and a
\* slot is left, every person is accepted.
C3_SaturationAccepts ==
    (Decided(3) /\ Saturated(bouncer)
        /\ bouncer.admitted_count < bouncer.VENUE_CAPACITY)
        => decision = TRUE

\* a person with no attribute at all is let in once the constraints are met
C3_Witness ==
    /\ Decided(3)
    /\ Saturated(bouncer)
    /\ \E a \in DOMAIN bouncer.constraints : bouncer.constraints[a] > 0
    /\ bouncer.admitted_count < bouncer.VENUE_CAPACITY
    /\ Present(next_person.attributes) = {}
    /\ decision = TRUE

\* C4: in the scenario-2 controller, once the four constraints are met and
\* a slot is left, every person is accepted.
C4_SaturationAccepts2 ==
    (Decided(2) /\ Saturated(bouncer)
        /\ bouncer.admitted_count < bouncer.VENUE_CAPACITY)
        => decision = TRUE

\* C5: in the scenario-1 controller, once the constraints of the start-run
\* response are met, whatever their minCount, every person is accepted.
C5_SaturationAccepts1 ==
    (Decided(1) /\ Saturated(bouncer)
        /\ bouncer.admitted_count < bouncer.VENUE_CAPACITY)
        => decision = TRUE

\* C6: the harness never holds more admitted people than the venue takes,
\* whatever calls and decisions it is given.
C6_NeverOverCapacity == sim.admitted_count <= sim.venue_capacity

\* the venue is full and a further call has been answered after that
C6_Witness ==
    /\ sim.status = "completed"
    /\ sim.admitted_count = sim.venue_capacity
    /\ sim.venue_capacity > 0
    /\ result.keys = {"status", "reason"}

\* what a constraint still needs fits in the slots that are left
Satisfiable(s) ==
    \A a \in DOMAIN s.constraints :
        s.constraints[a] - s.current_attribute_counts[a]
            <= s.venue_capacity - s.admitted_count

ConstraintsMet(s) ==
    \A a \in DOMAIN s.constraints :
        s.current_attribute_counts[a] >= s.constraints[a]

\* C7: a run of the scenario-3 controller never leaves a constraint
\* needing more than the slots left, and so a completed run meets every
\* constraint.
C7_NeverInfeasible ==
    bouncer.scenario = 3 =>
        /\ Satisfiable(sim)
        /\ sim.status = "completed" => ConstraintsMet(sim)

\* a completed run in which an attribute was required of everybody and
\* somebody was turned away
C7_Witness ==
    /\ bouncer.scenario = 3
    /\ sim.status = "completed"
    /\ pc = "done"
    /\ sim.rejected_count > 0
    /\ \E a \in DOMAIN sim.constraints : sim.constraints[a] = sim.venue_capacity

\* C8: a run of the scenario-1 controller on the scenario-1 configuration
\* never leaves a constraint needing more than the slots left, and a
\* completed run has 600 young and 600 well_dressed.
C8_Run1MeetsConstraints ==
    bouncer.scenario = 1 =>
        /\ Satisfiable(sim)
        /\ sim.status = "completed" =>
               /\ sim.current_attribute_counts["young"] >= 600
               /\ sim.current_attribute_counts["well_dressed"] >= 600

\* C9: when every person is young and well_dressed, the run of the
\* scenario-1 controller completes with 1000 admitted and nobody rejected.
C9_AllBothCompletes ==
    (bouncer.scenario = 1 /\ arrivals = "both")
        ~> (/\ sim.status = "completed"
            /\ sim.admitted_count = 1000
            /\ sim.rejected_count = 0)

C9_Witness ==
    /\ bouncer.scenario = 1
    /\ arrivals = "both"
    /\ pc = "done"
    /\ sim.status = "completed"
    /\ sim.admitted_count = 1000
    /\ sim.rejected_count = 0
    /\ bouncer.admitted_count = 1000

\* C10: when every person carries both attributes, the run of the
\* scenario-3 controller rejects nobody and ends completed with 1000
\* admitted.
C10_Scoring3AllBothCompletes ==
    (bouncer.scenario = 3 /\ arrivals = "both") =>
        /\ sim.rejected_count = 0
        /\ sim.status = "failed" => FALSE
        /\ sim.status = "completed" => sim.admitted_count = 1000

\* the run of the scenario-3 controller in which the arrivals alternate,
\* starting with a young person
AlternatingRun3 == bouncer.scenario = 3 /\ arrivals = "alternating"

\* every decision of the run follows the attribute, and a rejection is one
\* of the stage-1 gate
AlternatingDecisions ==
    pc = "submit" =>
        /\ decision = next_person.attributes["young"]
        /\ ~ decision => StageOneFails(bouncer, next_person.attributes)

\* C11 as stated: with capacity AltCap on both sides, one attribute required
\* of AltCap people and arrivals alternating from a person who has it, the
\* scenario-3 controller accepts who has it, rejects who has not at the
\* stage-1 gate, and the run ends with AltCap admitted and AltCap rejected.
C11_AlternatingTenTen ==
    AlternatingRun3 =>
        /\ AlternatingDecisions
        /\ pc = "done" =>
               /\ sim.status = "completed"
               /\ sim.admitted_count = AltCap
               /\ sim.rejected_count = AltCap

\* C11 amended: the run ends with AltCap admitted and AltCap - 1 rejected;
\* the venue is full at the AltCap-th admission, so the person after it is
\* never issued.
C11_AlternatingTenNine ==
    AlternatingRun3 =>
        /\ AlternatingDecisions
        /\ pc = "done" =>
               /\ sim.status = "completed"
               /\ sim.admitted_count = AltCap
               /\ sim.rejected_count = AltCap - 1
               /\ sim.person_index = 2 * AltCap - 1

C11_Witness ==
    /\ AlternatingRun3
    /\ pc = "done"
    /\ sim.status = "completed"
    /\ sim.admitted_count = AltCap
    /\ sim.rejected_count = AltCap - 1
    /\ bouncer.rejected_count = AltCap - 1

Terminal(s) == s.status \in {"completed", "failed"}

\* C12: once the harness is completed or failed, a further decide_and_next
\* call, whatever its decision, answers with that status and leaves the
\* counts, the attribute counts, the person index, the last person sent and
\* the status as they were; only start_game leaves a terminal status.
C12_TerminalCallsChangeNothing ==
    [][Terminal(sim) =>
          \/ /\ sim' = sim
             /\ result'.status = sim.status
             /\ result'.keys = {"status", "reason"}
          \/ /\ sim' = start_game(sim)
             /\ result' = game_data(sim')]_vars

\* a failed game that has answered a further call
C12_Witness ==
    /\ sim.status = "failed"
    /\ sim.rejected_count = sim.max_rejections
    /\ sim.admitted_count > 0
    /\ result.keys = {"status", "reason"}
    /\ result.status = "failed"

\* C13: a completed harness has admitted exactly venue_capacity people and
\* a running one fewer; the status turns from running to completed in the
\* very call in which admitted_count reaches venue_capacity.
C13_CompletedIffFull ==
    /\ [](/\ sim.status = "completed" => sim.admitted_count = sim.venue_capacity
          /\ sim.status = "running" => sim.admitted_count < sim.venue_capacity)
    /\ [][sim.status = "running" =>
             ((sim'.status = "completed")
                 <=> (/\ sim.admitted_count = sim.venue_capacity - 1
                      /\ sim'.admitted_count = sim.venue_capacity))]_vars

\* the call that filled the venue has just been answered with the final
\* state, somebody having been rejected on the way
C13_Witness ==
    /\ sim.status = "completed"
    /\ sim.admitted_count = sim.venue_capacity
    /\ sim.rejected_count > 0
    /\ result.keys = {"status", "rejectedCount", "admittedCount",
                      "attributeCounts", "reason"}
    /\ result.admittedCount = sim.venue_capacity

\* C14: rejected_count never passes max_rejections; a failed harness has
\* rejected exactly max_rejections people with the venue not full, a running
\* one fewer; the status turns from running to failed in the very call in
\* which rejected_count reaches max_rejections.
C14_FailedIffBudgetSpent ==
    /\ [](/\ sim.rejected_count <= sim.max_rejections
          /\ sim.status = "failed" =>
                 /\ sim.rejected_count = sim.max_rejections
                 /\ sim.admitted_count < sim.venue_capacity
          /\ sim.status = "running" => sim.rejected_count < sim.max_rejections)
    /\ [][sim.status = "running" =>
             ((sim'.status = "failed")
                 <=> (/\ sim.rejected_count = sim.max_rejections - 1
                      /\ sim'.rejected_count = sim.max_rejections))]_vars

\* the call that spent the budget has just been answered with the final
\* state, the venue holding all but one of the people it takes
C14_Witness ==
    /\ sim.status = "failed"
    /\ sim.rejected_count = sim.max_rejections
    /\ sim.admitted_count = sim.venue_capacity - 1
    /\ result.keys = {"status", "rejectedCount", "admittedCount",
                      "attributeCounts", "reason"}
    /\ result.rejectedCount = sim.max_rejections

\* the admission state after the outstanding person has been admitted
AcceptEffect(s, t) ==
    /\ t.admitted_count = s.admitted_count + 1
    /\ t.rejected_count = s.rejected_count
    /\ \A a \in DOMAIN s.constraints :
           t.current_attribute_counts[a] =
               s.current_attribute_counts[a]
                   + (IF s.last_person_sent.attributes[a] THEN 1 ELSE 0)

\* the admission state after the outstanding person has been rejected
RejectEffect(s, t) ==
    /\ t.rejected_count = s.rejected_count + 1
    /\ t.admitted_count = s.admitted_count
    /\ t.current_attribute_counts = s.current_attribute_counts

\* C15: a decide_and_next call that carries a decision for the outstanding
\* person of a running harness admits that person (admitted_count and the
\* count of each constrained attribute the person has go up by one,
\* rejected_count stays) or rejects that person (rejected_count goes up by
\* one, admitted_count and every attribute count stay), once.
C15_DecisionAppliedOnce ==
    [][\A d \in {"True", "False"} :
       \A attrs \in generate_person(sim, arrivals) :
           (/\ sim.status = "running"
            /\ sim.last_person_sent # NoPerson
            /\ sim' = decide_and_next(sim, d, attrs))
               => IF d = "True" THEN AcceptEffect(sim, sim')
                                ELSE RejectEffect(sim, sim')]_vars

\* people have been admitted and rejected, one of the admitted without an
\* attribute that another one had
C15_Witness ==
    /\ sim.status = "running"
    /\ sim.admitted_count = 2
    /\ sim.rejected_count = 1
    /\ \E a, b \in DOMAIN sim.constraints :
           /\ sim.current_attribute_counts[a] = 1
           /\ sim.current_attribute_counts[b] = 2

\* C16: in the harness no attribute count exceeds admitted_count and no
\* counter is negative.
C16_CountsWithinAdmitted ==
    /\ \A a \in DOMAIN sim.constraints :
           /\ sim.current_attribute_counts[a] <= sim.admitted_count
           /\ sim.current_attribute_counts[a] >= 0
    /\ sim.admitted_count >= 0
    /\ sim.rejected_count >= 0
    /\ sim.person_index >= 0

\* a game one admission short of the end, somebody rejected: one attribute
\* on everybody admitted so far, the other on nobody
C16_Witness ==
    /\ sim.status = "running"
    /\ sim.admitted_count = sim.venue_capacity - 1
    /\ sim.admitted_count > 0
    /\ sim.rejected_count > 0
    /\ \E a, b \in DOMAIN sim.constraints :
           /\ sim.current_attribute_counts[a] = sim.admitted_count
           /\ sim.current_attribute_counts[b] = 0

\* C17: in every controller a call of make_decision leaves every field of
\* the controller object as it was.
C17_DecisionHasNoSideEffect ==
    [][(pc = "decide" /\ pc' = "submit") => bouncer' = bouncer]_vars

\* C18: the scenario-3 decision returns a boolean for every controller
\* state and person and never raises: at the last slot, with all
\* constraints met, and when relativeFrequencies gives 0 to an attribute the
\* person has and the venue still needs.
C18_Scoring3Total ==
    (bouncer.scenario = 3 /\ pc # "decide") =>
        /\ pc = "submit"
        /\ decision \in BOOLEAN

\* C19: whatever decide_and_next calls a running harness is given, with a
\* decision or without, a person is issued only once the person before has
\* been counted: while the harness is running with a person outstanding,
\* admitted_count + rejected_count = person_index - 1.
C19_IssuedAfterCounted ==
    (sim.status = "running" /\ sim.last_person_sent # NoPerson) =>
        sim.admitted_count + sim.rejected_count = sim.person_index - 1

\* a response that carries a person
RunningResponse(r) == "nextPerson" \in r.keys

\* C20: within a game the persons come in index order without gap or
\* repeat, one per call answered as running: start_game sets the index to
\* 0, a call answered as running carries the person whose index is the
\* number of persons issued before it, and no other call moves the index.
C20_IndexOrder ==
    [][IF "gameId" \in result'.keys
       THEN sim'.person_index = 0 /\ sim'.last_person_sent = NoPerson
       ELSE IF RunningResponse(result')
       THEN /\ result'.status = "running"
            /\ result'.nextPerson.personIndex = sim.person_index
            /\ result'.nextPerson = sim'.last_person_sent
            /\ sim'.person_index = sim.person_index + 1
       ELSE /\ sim'.person_index = sim.person_index
            /\ sim'.last_person_sent = sim.last_person_sent]_vars

\* the third person of a game has been issued after two decisions
C20_Witness ==
    /\ sim.status = "running"
    /\ RunningResponse(result)
    /\ result.nextPerson.personIndex = 2
    /\ sim.person_index = 3
    /\ sim.admitted_count = 1
    /\ sim.rejected_count = 1

FinalStateKeys == {"status", "rejectedCount", "admittedCount",
                   "attributeCounts", "reason"}

\* C21: every decide_and_next response of a started game has one of two
\* shapes: with status running it carries the next person and the rejected
\* count, and with status completed or failed, in the call that ends the
\* game and in every later call, it carries rejectedCount, admittedCount,
\* attributeCounts and reason.
C21_ResponseShapes ==
    (/\ "gameId" \notin result.keys
     /\ result.keys # {}
     /\ sim.status # "not_started") =>
        \/ /\ result.status = "running"
           /\ result.keys = {"status", "nextPerson", "rejectedCount"}
           /\ result.nextPerson = sim.last_person_sent
           /\ result.rejectedCount = sim.rejected_count
        \/ /\ result.status \in {"completed", "failed"}
           /\ result.keys = FinalStateKeys

\* the order of the attributes in a table key, as the tables state it
\* ("P(young=.., well_dressed=..)" and so on)
KeyNames(keys) ==
    IF keys = scenario_1_attrs THEN <<"young", "well_dressed">>
    ELSE IF keys = scenario_2_attrs
    THEN <<"berlin_local", "creative", "techno_lover", "well_connected">>
    ELSE <<"fashion_forward", "german_speaker", "international",
           "queer_friendly", "underground_veteran", "vinyl_collector">>

\* the person that entry i of the table describes
EntryPerson(keys, table, i) ==
    [a \in keys |->
        \A n \in 1..Len(KeyNames(keys)) :
            KeyNames(keys)[n] = a => table[i].key[n]]

\* a person has been generated from arrivals
Generated == pc = "generated"

C23_InverseCDF ==
    LET table == arrivals.joint_probabilities
        u == arrivals.rand_val
    IN (Generated /\ u <= Cumulative(table, Len(table))) =>
           \E i \in 1..Len(table) :
               /\ Cumulative(table, i) >= u
               /\ \A j \in 1..(i - 1) : Cumulative(table, j) < u
               /\ next_person.attributes
                      = EntryPerson(DOMAIN sim.constraints, table, i)

\* the value is exactly the running sum of an entry in the middle of the
\* scenario-3 table, and the person is that entry's, not the next one's
C23_Witness ==
    LET table == arrivals.joint_probabilities
    IN /\ Generated
       /\ DOMAIN sim.constraints = scenario_3_attrs
       /\ \E i \in 2..(Len(table) - 1) :
              /\ arrivals.rand_val = Cumulative(table, i)
              /\ next_person.attributes
                     = EntryPerson(scenario_3_attrs, table, i)
              /\ next_person.attributes
                     # EntryPerson(scenario_3_attrs, table, i + 1)

\* the sum of the probabilities of the first i entries in which key position
\* n is True
RECURSIVE Marginal(_, _, _)
Marginal(table, n, i) ==
    IF i = 0 THEN 0
    ELSE Marginal(table, n, i - 1)
            + (IF table[i].key[n] THEN table[i].prob ELSE 0)

\* the tolerance of the comparisons: one millionth
Tolerance == ProbDen \div 1000000

Within(x, y) == x - y <= Tolerance /\ y - x <= Tolerance

\* the probabilities of the generator's table sum to 1 within Tolerance
TableSumsToOne ==
    LET table == arrivals.joint_probabilities
    IN Within(Cumulative(table, Len(table)), ProbDen)

\* C26: for each built-in population model the joint table sums to 1 within
\* tolerance, and for every attribute the entries in which it is True sum
\* to its frequency in attribute_frequencies within tolerance.
C26_TableMatchesFrequencies ==
    LET table == arrivals.joint_probabilities
        names == KeyNames(DOMAIN sim.constraints)
    IN /\ TableSumsToOne
       /\ \A n \in 1..Len(names) :
              Within(Marginal(table, n, Len(table)),
                     sim.attribute_frequencies[names[n]] * (ProbDen \div FreqDen))

\* the harness is constructed with no scenario number and an attribute set
\* that is none of the three known ones
Unrecognized ==
    /\ arrivals.scenario_number = 0
    /\ DOMAIN arrivals.scenario_config.constraints
           \notin {scenario_1_attrs, scenario_2_attrs, scenario_3_attrs}

\* no engine exists: construction has not been tried yet, or it raised
NotConstructed ==
    /\ pc \in {"construct", "construction_error"}
    /\ sim = NoEngine

\* C24: with no scenario number and an attribute set that is not one of
\* the three known sets, construction raises: no engine ever exists, so
\* the harness never reaches running.
C24_UnrecognizedRaises == Unrecognized => NotConstructed

\* construction was tried for such a configuration and raised
C24_Witness == Unrecognized /\ pc = "construction_error"

\* the harness is constructed with scenario number 1, 2 or 3 and an
\* attribute set other than that scenario's
Mismatch ==
    /\ arrivals.scenario_number \in {1, 2, 3}
    /\ DOMAIN arrivals.scenario_config.constraints
           # DOMAIN attribute_frequencies(arrivals.scenario_number)

\* C25: with an explicit scenario number 1, 2 or 3 and an attribute set
\* that differs from that scenario's, construction raises: no engine ever
\* exists, so no game is started and no candidate is generated.
C25_MismatchRaises == Mismatch => NotConstructed

\* the last response is the game data of start_game
Started == "gameId" \in result.keys

\* C27: after start_game the status is running, admitted_count,
\* rejected_count, every attribute count and person_index are 0 and no
\* candidate is outstanding; the constraints list returned has exactly one
\* {attribute, minCount} entry per configured constraint.
C27_StartGameResets ==
    Started =>
        /\ sim.status = "running"
        /\ sim.admitted_count = 0
        /\ sim.rejected_count = 0
        /\ \A a \in DOMAIN sim.current_attribute_counts :
               sim.current_attribute_counts[a] = 0
        /\ DOMAIN sim.current_attribute_counts = DOMAIN sim.constraints
        /\ sim.person_index = 0
        /\ sim.last_person_sent = NoPerson
        /\ Len(result.constraints) = Cardinality(DOMAIN sim.constraints)
        /\ \A a \in DOMAIN sim.constraints :
               \E i \in 1..Len(result.constraints) :
                   result.constraints[i]
                       = [attribute |-> a, minCount |-> sim.constraints[a]]

\* a game has just been started with two different minimum counts
C27_Witness ==
    /\ Started
    /\ sim.status = "running"
    /\ sim.person_index = 0
    /\ Len(result.constraints) = 2
    /\ result.constraints[1].minCount # result.constraints[2].minCount

\* C28: with a decision in every call but the first, a game is over after
\* at most venue_capacity + max_rejections - 1 decisions: while the status
\* is running at most venue_capacity + max_rejections - 2 decisions have
\* been given, every call but the first having counted one.
C28_RunTerminates ==
    sim.status = "running" =>
        /\ sim.person_index <= sim.venue_capacity + sim.max_rejections - 1
        /\ sim.last_person_sent # NoPerson =>
               sim.admitted_count + sim.rejected_count = sim.person_index - 1

\* the longest game: one decision before the bound, still running
C28_Witness ==
    /\ sim.status = "running"
    /\ sim.admitted_count = sim.venue_capacity - 1
    /\ sim.rejected_count = sim.max_rejections - 1
    /\ sim.person_index = sim.venue_capacity + sim.max_rejections - 1

\* a decide_and_next step of a running harness
DecideStep == sim.status = "running" /\ "gameId" \notin result'.keys

\* C29: a decide_and_next step of a running harness applies the decision
\* first, then checks capacity, then the rejection budget, on the counts
\* the decision has produced, and draws a new candidate only if neither
\* holds: in the step that ends the game person_index and last_person_sent
\* do not change.
C29_StepOrder ==
    [][DecideStep =>
          /\ \/ AcceptEffect(sim, sim')
             \/ RejectEffect(sim, sim')
             \/ /\ sim'.admitted_count = sim.admitted_count
                /\ sim'.rejected_count = sim.rejected_count
                /\ sim'.current_attribute_counts = sim.current_attribute_counts
          /\ IF sim'.admitted_count >= sim.venue_capacity
             THEN /\ sim'.status = "completed"
                  /\ sim'.person_index = sim.person_index
                  /\ sim'.last_person_sent = sim.last_person_sent
             ELSE IF sim'.rejected_count >= sim.max_rejections
             THEN /\ sim'.status = "failed"
                  /\ sim'.person_index = sim.person_index
                  /\ sim'.last_person_sent = sim.last_person_sent
             ELSE /\ sim'.status = "running"
                  /\ sim'.person_index = sim.person_index + 1
                  /\ sim'.last_person_sent.personIndex = sim.person_index]_vars

\* a game has ended and the last candidate issued is still the one before
\* person_index
C29_Witness ==
    /\ Terminal(sim)
    /\ result.keys = FinalStateKeys
    /\ sim.last_person_sent # NoPerson
    /\ sim.last_person_sent.personIndex = sim.person_index - 1
    /\ sim.admitted_count + sim.rejected_count > 0

\* C30: completed and failed are terminal: no operation of the harness,
\* start_game included, changes the status or the counters of a finished
\* game.
C30_TerminalIsFinal ==
    [][Terminal(sim) =>
          /\ sim'.status = sim.status
          /\ sim'.admitted_count = sim.admitted_count
          /\ sim'.rejected_count = sim.rejected_count
          /\ sim'.current_attribute_counts = sim.current_attribute_counts
          /\ sim'.person_index = sim.person_index]_vars

Max0(n) == IF n > 0 THEN n ELSE 0

\* the count of attribute a still needed as the stage-1 formula has it:
\* floored at 0, then one less, floored at 0 again, if the person has a
needed_floored(b, attrs, a) ==
    LET needed == Max0(b.constraints[a] - b.current_attribute_counts[a])
    IN IF a \in Present(attrs) THEN Max0(needed - 1) ELSE needed

\* C31: in the scenario-3 controller, for every person and every state with
\* 0 <= admitted_count <= VENUE_CAPACITY, _is_feasible is False exactly when
\* some attribute a has needed(a) > VENUE_CAPACITY - admitted_count - 1,
\* needed(a) being max(0, minCount[a] - count[a]), one less and floored at 0
\* if the person has a.
C31_FeasibleIsFormula ==
    (Decided(3) /\ bouncer.admitted_count \in 0..bouncer.VENUE_CAPACITY) =>
        (~ _is_feasible(bouncer, next_person.attributes)
            <=> \E a \in DOMAIN bouncer.constraints :
                    needed_floored(bouncer, next_person.attributes, a)
                        > bouncer.VENUE_CAPACITY - bouncer.admitted_count - 1)

\* the scenario-3 decision is left to the score: stage 1 passes, some
\* constraint is unmet, the person has no rare attribute and the
\* german-speaker limit does not reject
ScoreDecides(b, attrs) ==
    /\ ~ StageOneFails(b, attrs)
    /\ ~ Saturated(b)
    /\ "queer_friendly" \notin Present(attrs)
    /\ "vinyl_collector" \notin Present(attrs)
    /\ \/ "german_speaker" \in Present(attrs)
       \/ b.admitted_count - b.current_attribute_counts["german_speaker"]
              < b.VENUE_CAPACITY - b.constraints["german_speaker"]

\* the bonus as claimed, in halves: 1.5 for two helped constraints, 2.0 for
\* three or more, 1 otherwise
ClaimedBonusHalves(n) == IF n >= 3 THEN 4 ELSE IF n = 2 THEN 3 ELSE 2

\* score >= threshold with the claimed bonus, for remaining > 0:
\*   score     = bonus * sum of (needed / remaining) / frequency
\*   threshold = max(0.1, 2.0 * (1 - max_needed / remaining) ^ 2)
ClaimedAccept(b, attrs) ==
    LET H == helpful(b, attrs)
        remaining == b.VENUE_CAPACITY - b.admitted_count
        num == BigMul(BigMul(ScoreNumerator(b, H, H), FreqDen),
                      ClaimedBonusHalves(Cardinality(H)))
        den == FreqProduct(b, H)
        gap == Abs(remaining - max_needed(b))
    IN /\ BigGeq(BigMul(num, remaining),
                 BigMul(BigMul(BigMul(den, gap), gap), 4))
       /\ BigGeq(BigMul(num, 10), BigMul(BigMul(den, remaining), 2))

\* C32: in the scenario-3 controller the summed score is multiplied by 1.5
\* when the person helps exactly 2 unmet constraints, by 2.0 when the person
\* helps 3 or more and by 1 otherwise; so a decision left to the score is
\* the comparison of that product with the threshold.
C32_BonusFactors ==
    (Decided(3) /\ ScoreDecides(bouncer, next_person.attributes)
        /\ bouncer.admitted_count < bouncer.VENUE_CAPACITY)
        => decision = ClaimedAccept(bouncer, next_person.attributes)

\* x <= y for two fractions with positive denominators
FracLeq(x, y) == x.num * y.den <= y.num * x.den

\* the threshold is within [0.1, 2.0]
ThresholdInRange(t) ==
    /\ FracLeq([num |-> 1, den |-> 10], t)
    /\ FracLeq(t, [num |-> 2, den |-> 1])

\* C33 as stated: in every state of a run of the scenario-3 controller the
\* threshold lies in [0.1, 2.0].
C33_ThresholdInEveryState ==
    bouncer.scenario = 3 =>
        ThresholdInRange(_get_desperation_threshold(bouncer))

\* C33 amended: in every state of a run of the scenario-3 controller in
\* which a slot is left, the maximum desperation needed / remaining lies in
\* [0, 1], the threshold is max(0.1, 2.0 * (1 - desperation) ^ 2) and lies
\* in [0.1, 2.0], and no state with a smaller or equal desperation (needed2
\* of remaining2 slots, within the same venue) has a smaller threshold.
C33_ThresholdWithSlotLeft ==
    LET remaining == bouncer.VENUE_CAPACITY - bouncer.admitted_count
        needed == max_needed(bouncer)
        t == _get_desperation_threshold(bouncer)
        dynamic == [num |-> 2 * (remaining - needed) * (remaining - needed),
                    den |-> remaining * remaining]
        minimum == [num |-> 1, den |-> 10]
    IN (bouncer.scenario = 3 /\ remaining > 0) =>
           /\ 0 <= needed /\ needed <= remaining
           /\ FracLeq(minimum, t) /\ FracLeq(dynamic, t)
           /\ t = minimum \/ t = dynamic
           /\ ThresholdInRange(t)
           /\ \A remaining2 \in 1..bouncer.VENUE_CAPACITY :
              \A needed2 \in 0..remaining2 :
                  needed2 * remaining <= needed * remaining2 =>
                      FracLeq(t, desperation_threshold(needed2, remaining2))

\* a decision taken with a desperation strictly between 0 and 1 and a
\* threshold above the minimum
C33_Witness ==
    LET remaining == bouncer.VENUE_CAPACITY - bouncer.admitted_count
    IN /\ bouncer.scenario = 3
       /\ pc = "submit"
       /\ bouncer.admitted_count > 0
       /\ 0 < max_needed(bouncer) /\ max_needed(bouncer) < remaining
       /\ _get_desperation_threshold(bouncer) # [num |-> 1, den |-> 10]

\* the attribute admissions still needed, over all constraints
TotalNeeded(b) ==
    Max0(b.constraints["young"] - b.current_attribute_counts["young"])
        + Max0(b.constraints["well_dressed"]
                  - b.current_attribute_counts["well_dressed"])

\* C34: in a run of the scenario-1 controller against a venue of 1000, once
\* more than 1200 people have been processed and the constraints are not
\* met, a person with neither attribute is accepted when stage 1 passes and
\* the slots left after the admission are at least the attribute
\* admissions still needed.
C34_PhaseTwoAccepts ==
    (/\ Decided(1)
     /\ bouncer.VENUE_CAPACITY = 1000
     /\ bouncer.people_seen > phase1_threshold + 1
     /\ ~ Saturated(bouncer)
     /\ Present(next_person.attributes) = {}
     /\ ~ StageOneFails(bouncer, next_person.attributes)
     /\ bouncer.VENUE_CAPACITY - bouncer.admitted_count - 1 >= TotalNeeded(bouncer))
        => decision = TRUE

\* C35: in every run of the scenario-2 controller the admitted people who
\* are not creative never number more than VENUE_CAPACITY - 300, and a
\* creative person is accepted whenever a slot is left.
C35_CreativeSlotsReserved ==
    bouncer.scenario = 2 =>
        /\ bouncer.admitted_count
               - Get(bouncer.current_attribute_counts, "creative", 0)
               <= bouncer.VENUE_CAPACITY - 300
        /\ (Decided(2) /\ "creative" \in Present(next_person.attributes)
               /\ bouncer.admitted_count < bouncer.VENUE_CAPACITY)
               => decision = TRUE

\* the person carries one of the two rare attributes
Rare(attrs) ==
    "queer_friendly" \in Present(attrs) \/ "vinyl_collector" \in Present(attrs)

\* C36: in the scenario-3 controller the override comes after the
\* feasibility gate and the saturation test and before the german-speaker
\* limit and the score: a person who passes the gate while some constraint
\* is unmet and who is queer_friendly or vinyl_collector is accepted,
\* whatever the score and the german-speaker count, and a person who fails
\* the gate is rejected, rare attribute or not.
C36_OverridePriority ==
    (Decided(3) /\ Rare(next_person.attributes)) =>
        /\ (~ StageOneFails(bouncer, next_person.attributes)
               /\ ~ Saturated(bouncer)) => decision = TRUE
        /\ StageOneFails(bouncer, next_person.attributes) => decision = FALSE

\* a rare person who is let in although no count the person adds to is
\* still needed, so that the score alone would have rejected
C36_Witness ==
    /\ Decided(3)
    /\ Rare(next_person.attributes)
    /\ ~ StageOneFails(bouncer, next_person.attributes)
    /\ ~ Saturated(bouncer)
    /\ helpful(bouncer, next_person.attributes) = {}
    /\ bouncer.admitted_count < bouncer.VENUE_CAPACITY - 1
    /\ ~ _should_accept_advanced(bouncer, next_person.attributes)
    /\ decision = TRUE

\* the german-speaker limit would reject the person: not a german speaker,
\* and the admitted non-speakers have used VENUE_CAPACITY - minCount
LimitRejects(b, attrs) ==
    /\ "german_speaker" \notin Present(attrs)
    /\ b.admitted_count - Get(b.current_attribute_counts, "german_speaker", 0)
           >= b.VENUE_CAPACITY - Get(b.constraints, "german_speaker", 0)

\* in a state with a slot left, a person the german-speaker limit would
\* reject has failed the feasibility gate and is rejected
LimitImpliesGate ==
    (Decided(3) /\ bouncer.admitted_count < bouncer.VENUE_CAPACITY
        /\ LimitRejects(bouncer, next_person.attributes)) =>
        /\ StageOneFails(bouncer, next_person.attributes)
        /\ decision = FALSE

\* while the german_speaker constraint is unmet, the admitted people who
\* are not german speakers number at most VENUE_CAPACITY minus its minCount
NonSpeakersWithinLimit ==
    (/\ bouncer.scenario = 3
     /\ "german_speaker" \in DOMAIN bouncer.constraints
     /\ bouncer.current_attribute_counts["german_speaker"]
            < bouncer.constraints["german_speaker"]) =>
        bouncer.admitted_count - bouncer.current_attribute_counts["german_speaker"]
            <= bouncer.VENUE_CAPACITY - bouncer.constraints["german_speaker"]

\* C37: in every state of a run of the scenario-3 controller with a slot
\* left, a person the german-speaker limit would reject has failed the
\* feasibility gate already, so the limit never changes a decision; and
\* the admitted people who are not german speakers never number more than
\* VENUE_CAPACITY minus the german_speaker minCount while that constraint
\* is unmet.
C37_LimitSubsumed == LimitImpliesGate /\ NonSpeakersWithinLimit

\* the limit would reject a person whom the override and the score would
\* both let in
C37_Witness ==
    /\ Decided(3)
    /\ bouncer.admitted_count < bouncer.VENUE_CAPACITY
    /\ bouncer.admitted_count > 0
    /\ LimitRejects(bouncer, next_person.attributes)
    /\ "queer_friendly" \in Present(next_person.attributes)
    /\ decision = FALSE

C39_SameAdmissionState ==
    pc \in {"first", "decide", "submit", "done"} =>
        /\ bouncer.admitted_count = sim.admitted_count
        /\ bouncer.rejected_count = sim.rejected_count
        /\ bouncer.current_attribute_counts = sim.current_attribute_counts

\* a completed run with admissions and rejections, the counts of the two
\* sides equal, one attribute counted and another not counted every time
C39_Witness ==
    /\ pc = "done"
    /\ sim.status = "completed"
    /\ result.keys = FinalStateKeys
    /\ bouncer.admitted_count = sim.venue_capacity
    /\ bouncer.rejected_count > 0
    /\ bouncer.rejected_count = sim.rejected_count
    /\ \E a \in DOMAIN bouncer.current_attribute_counts :
           /\ bouncer.current_attribute_counts[a] > 0
           /\ bouncer.current_attribute_counts[a] < bouncer.admitted_count
           /\ bouncer.current_attribute_counts[a] = sim.current_attribute_counts[a]

====
